---------------------------- MODULE Spec2Model ----------------------------
(***************************************************************************)
(* A model of the bidding, funds-custody and round-settlement engine of    *)
(* tg-nft-auction: WalletService, AuctionService.placeBid,                  *)
(* AuctionService.processRoundEnd, AuctionService.createAuction and        *)
(* SchedulerService, started from the auction the seed script builds.      *)
(*                                                                         *)
(* Every handler is an async function running on one event loop: the code  *)
(* between two awaits is atomic, and every await is a point where other    *)
(* handlers interleave.  Each action below is one awaited store operation  *)
(* (MongoDB or Redis) together with the synchronous code that follows it   *)
(* up to the next await.  Time is counted in units of 30 seconds.          *)
(***************************************************************************)
EXTENDS Integers, Sequences, FiniteSets, TLC

(* ------------------------------- bounds ------------------------------- *)
NumUsers == 2
MaxAmount == 2
InitialBalance == 3
MaxRounds == 2
LongRounds == 3
MaxItemsPerRound == 1
RoundDuration == 2
MaxTime == 2
MaxBidCalls == 3
MaxSettleCalls == 3
MaxInFlight == 2
BidBudget == 2
SettleBudget == 1
MaxAuctions == 3
MaxFailures == 1
MaxCreateCalls == 2
MaxSkipped == 1
MaxLateTime == 4

(* -------------------------- program constants ------------------------- *)
\* config.antiSnipeWindowSeconds and config.antiSnipeExtensionSeconds, 30 s each
AntiSnipeWindow == 1
AntiSnipeExtension == 1

Users == 1..NumUsers
AuctionIds == 1..MaxAuctions
Amounts == 1..MaxAmount
BidCalls == 1..MaxBidCalls
SettleCalls == 1..MaxSettleCalls
CreateCalls == 1..MaxCreateCalls
RoundNumbers == 1..LongRounds

VARIABLES
  now,        \* the clock (new Date())
  users,      \* User collection: balance, frozenFunds
  auctions,   \* Auction collection, with the embedded rounds
  bids,       \* Bid collection in insertion order; the index is the _id
  items,      \* Item collection keyed by <<auctionId, serialNumber>>
  redis,      \* leaderboard ZSETs keyed by <<auctionId, roundNumber>>
  bidCall,    \* the placeBid invocations
  settleCall, \* the processRoundEnd invocations
  createCall, \* the createAuction invocations
  sched,      \* SchedulerService: isProcessing and the running tick
  failures    \* store operations that have been rejected so far

vars == <<now, users, auctions, bids, items, redis, bidCall, settleCall,
          createCall, sched, failures>>

(* ------------------------------ the models ---------------------------- *)
\* BidStatus.ACTIVE and BidStatus.CARRIED_OVER: the statuses that hold escrow
Live == {"active", "carried_over"}

NoAuction ==
  [exists |-> FALSE, status |-> "pending", itemsPerRound |-> 0,
   totalRounds |-> 0, currentRound |-> 0, rounds |-> <<>>]

NoItem == [exists |-> FALSE, ownerId |-> 0, roundWon |-> 0, bidId |-> 0]

EmptyZSet == [u \in Users |-> 0]

ItemKeys == AuctionIds \X (1..(LongRounds * MaxItemsPerRound))

RedisKeys == AuctionIds \X RoundNumbers

\* the rounds createAuction and the seed script build at time t
NewRounds(t, totalRounds, itemsPerRound) ==
  [i \in 1..totalRounds |->
     [roundNumber |-> i,
      status |-> IF i = 1 THEN "active" ELSE "pending",
      startTime |-> t + (i - 1) * RoundDuration,
      endTime |-> t + (i - 1) * RoundDuration + RoundDuration,
      winners |-> <<>>,
      itemsInRound |-> itemsPerRound,
      extendedCount |-> 0]]

NewAuction(t, totalRounds, itemsPerRound) ==
  [exists |-> TRUE, status |-> "active", itemsPerRound |-> itemsPerRound,
   totalRounds |-> totalRounds, currentRound |-> 1,
   rounds |-> NewRounds(t, totalRounds, itemsPerRound)]

\* Item.insertMany(itemsData) of a new auction
NewItems(old, a, totalItems) ==
  [k \in ItemKeys |->
     IF k[1] = a /\ k[2] <= totalItems
       THEN [exists |-> TRUE, ownerId |-> 0, roundWon |-> 0, bidId |-> 0]
       ELSE old[k]]

(* -------------------------- store operations -------------------------- *)
\* Mongo's positional update { _id, 'rounds.roundNumber': n } / rounds.$.f:
\* the first array element with that roundNumber, nothing when none matches
RoundIndex(a, n) ==
  IF \E i \in DOMAIN a.rounds : a.rounds[i].roundNumber = n
    THEN CHOOSE i \in DOMAIN a.rounds :
           /\ a.rounds[i].roundNumber = n
           /\ \A j \in DOMAIN a.rounds : a.rounds[j].roundNumber = n => i <= j
    ELSE 0

SetRoundStatus(as, id, n, st) ==
  IF as[id].exists /\ RoundIndex(as[id], n) # 0
    THEN [as EXCEPT ![id].rounds[RoundIndex(as[id], n)].status = st]
    ELSE as

PrecedesByScoreOnly(z, u, v) == z[u] >= z[v]

\* ZSET order of zrevrange: score descending, equal scores by member descending
Precedes(z, u, v) == z[u] > z[v] \/ (z[u] = z[v] /\ u >= v)

RECURSIVE Ranked(_, _)
Ranked(z, members) ==
  IF members = {} THEN <<>>
  ELSE LET top == CHOOSE u \in members : \A v \in members : Precedes(z, u, v)
       IN <<[oderId |-> top, amount |-> z[top]]>> \o Ranked(z, members \ {top})

Members(z) == {u \in Users : z[u] # 0}

\* redis.zrevrange(key, 0, stop, 'WITHSCORES'); stop = -1 reads the whole set
zrevrange(z, stop) ==
  LET all == Ranked(z, Members(z))
  IN IF stop < 0 \/ stop + 1 >= Len(all) THEN all ELSE SubSeq(all, 1, stop + 1)

\* the Bid documents matching { userId, auctionId, status: { $in: [ACTIVE, CARRIED_OVER] } }
LiveBids(bs, u, a) ==
  {i \in DOMAIN bs : bs[i].exists /\ bs[i].userId = u /\ bs[i].auctionId = a
                      /\ bs[i].status \in Live}

\* findOne / findOneAndUpdate / updateOne act on one matching document; no
\* sort is given, so which one is the store's choice.  0 stands for null.
OneOf(S) == IF S = {} THEN {0} ELSE S

(* ---------------------------- WalletService --------------------------- *)
\* Each operation reads the user document (User.findById), checks it, and
\* writes the fields it changed back with user.save(): two awaits, so the
\* value written is computed from the document as it was when it was read.

lockFundsRejectsAboveBalance(user, amount) ==
  amount <= 0 \/ user.balance < amount

\* lockFunds: amount <= 0, or availableBalance < amount, throws InsufficientFundsError
lockFundsRejects(user, amount) ==
  amount <= 0 \/ user.balance - user.frozenFunds < amount

\* lockFunds: user.frozenFunds += amount; await user.save()
lockFundsSave(us, u, read, amount) ==
  [us EXCEPT ![u].frozenFunds = read.frozenFunds + amount]

deductFundsRejectsNothing(user, amount) == FALSE

\* deductFunds: throws unless frozenFunds >= amount and balance >= amount
deductFundsRejects(user, amount) ==
  amount <= 0 \/ user.frozenFunds < amount \/ user.balance < amount

\* deductFunds: user.frozenFunds -= amount; user.balance -= amount; await user.save()
deductFundsSave(us, u, read, amount) ==
  [us EXCEPT ![u].frozenFunds = read.frozenFunds - amount,
             ![u].balance = read.balance - amount]

\* refundFunds: throws unless frozenFunds >= amount
refundFundsRejects(user, amount) ==
  amount <= 0 \/ user.frozenFunds < amount

\* refundFunds: user.frozenFunds -= amount; await user.save()
refundFundsSave(us, u, read, amount) ==
  [us EXCEPT ![u].frozenFunds = read.frozenFunds - amount]

(* ------------------------------- Init --------------------------------- *)
IdleBidCall ==
  [pc |-> "idle", userId |-> 0, auctionId |-> 0, amount |-> 0,
   roundNumber |-> 0, endTime |-> 0, existingBid |-> 0, bidId |-> 0,
   bidAmount |-> 0, userRead |-> [balance |-> 0, frozenFunds |-> 0],
   roundExtended |-> FALSE,
   newEndTime |-> 0, result |-> "none"]

NoUser == [balance |-> 0, frozenFunds |-> 0]

IdleSettleCall ==
  [pc |-> "idle", caller |-> "none", auctionId |-> 0, roundNumber |-> 0,
   itemsInRound |-> 0, totalRounds |-> 0, winners |-> <<>>, rankIdx |-> 0,
   bidId |-> 0, userRead |-> NoUser, roundWinners |-> <<>>, losers |-> <<>>,
   loserIdx |-> 0, winnersCount |-> 0, losersCarriedOver |-> 0,
   losersRefunded |-> 0, result |-> "none"]

\* found is the length of auctionsWithExpiredRounds, queue what the for loop
\* has left of it; skipped counts the ticks that returned at once because
\* isProcessing was set
IdleSched == [isProcessing |-> FALSE, pc |-> "idle", tickTime |-> 0,
              found |-> 0, queue |-> <<>>, running |-> 0, skipped |-> 0]

IdleCreateCall ==
  [pc |-> "idle", totalRounds |-> 0, itemsPerRound |-> 0, existing |-> <<>>,
   r |-> 0, createdAt |-> 0, auctionId |-> 0, result |-> "none"]

\* The state the seed script leaves: the users, each with a balance and
\* nothing frozen, and one ACTIVE auction created at time 0 with its items.
Seeded(roundCounts, t) ==
  /\ now = t
  /\ users = [u \in Users |-> [balance |-> InitialBalance, frozenFunds |-> 0]]
  /\ \E n \in roundCounts, k \in 1..MaxItemsPerRound :
       /\ auctions = [a \in AuctionIds |->
                        IF a = 1 THEN NewAuction(0, n, k) ELSE NoAuction]
       /\ items = NewItems([key \in ItemKeys |-> NoItem], 1, n * k)
  /\ bids = <<>>
  /\ redis = [key \in RedisKeys |-> EmptyZSet]
  /\ bidCall = [c \in BidCalls |-> IdleBidCall]
  /\ settleCall = [s \in SettleCalls |-> IdleSettleCall]
  /\ createCall = [k \in CreateCalls |-> IdleCreateCall]
  /\ sched = IdleSched
  /\ failures = 0

Init == Seeded(1..MaxRounds, 0)

\* the same auction seen when round 1 has entered its anti-snipe window
InitClosing == Seeded(1..MaxRounds, RoundDuration - AntiSnipeWindow)

InitLong == Seeded({LongRounds}, 0)

(* ------------------------ AuctionService.placeBid --------------------- *)
findActiveRoundByStatusOnly(a, t) ==
  LET open == {i \in DOMAIN a.rounds : a.rounds[i].status = "active"}
  IN IF open = {} THEN 0 ELSE CHOOSE i \in open : \A j \in open : i <= j

\* findActiveRound: the first round that is ACTIVE with startTime <= now < endTime
findActiveRound(a, t) ==
  LET open == {i \in DOMAIN a.rounds :
                 /\ a.rounds[i].status = "active"
                 /\ a.rounds[i].startTime <= t
                 /\ a.rounds[i].endTime > t}
  IN IF open = {} THEN 0 ELSE CHOOSE i \in open : \A j \in open : i <= j

\* the auctions a caller can name: those the store holds
KnownAuctions == {a \in AuctionIds : auctions[a].exists}

\* the call returns or throws: its locals are dead, its outcome is kept
BidCallEnds(c, outcome) ==
  [bidCall EXCEPT ![c] = [IdleBidCall EXCEPT !.pc = "done", !.result = outcome,
                            !.userId = bidCall[c].userId,
                            !.auctionId = bidCall[c].auctionId,
                            !.amount = bidCall[c].amount]]

\* the handler invocations in progress
InFlight ==
  Cardinality({c \in BidCalls : bidCall[c].pc \notin {"idle", "done"}})
  + Cardinality({s \in SettleCalls : settleCall[s].pc \notin {"idle", "done"}
                                      /\ settleCall[s].caller = "manual"})
  + Cardinality({k \in CreateCalls : createCall[k].pc \notin {"idle", "done"}})
  + (IF sched.isProcessing THEN 1 ELSE 0)

\* a caller invokes placeBid(userId, auctionId, amount); calls start in order
PlaceBidStart(c, u, a, amount) ==
  /\ bidCall[c].pc = "idle"
  /\ InFlight < MaxInFlight
  /\ \A d \in BidCalls : d < c => bidCall[d].pc # "idle"
  /\ bidCall' = [bidCall EXCEPT ![c] =
                   [IdleBidCall EXCEPT
                      !.pc = IF amount <= 0 THEN "done" ELSE "findAuction",
                      !.result = IF amount <= 0 THEN "InvalidBidAmount" ELSE "none",
                      !.userId = u, !.auctionId = a, !.amount = amount]]
  /\ UNCHANGED <<now, users, auctions, bids, items, redis, settleCall, sched,
                 failures,
                 createCall>>

\* await Auction.findById(auctionId), the status checks and findActiveRound
PlaceBidFindAuction(c) ==
  /\ bidCall[c].pc = "findAuction"
  /\ LET a == auctions[bidCall[c].auctionId]
         r == findActiveRound(a, now)
     IN bidCall' =
          IF ~a.exists THEN BidCallEnds(c, "AuctionNotFound")
          ELSE IF a.status # "active" THEN BidCallEnds(c, "AuctionNotActive")
          ELSE IF r = 0 THEN BidCallEnds(c, "RoundNotActive")
          ELSE [bidCall EXCEPT ![c].pc = "findBid",
                  ![c].roundNumber = a.rounds[r].roundNumber,
                  ![c].endTime = a.rounds[r].endTime]
  /\ UNCHANGED <<now, users, auctions, bids, items, redis, settleCall, sched,
                 failures,
                 createCall>>

\* await Bid.findOne({ userId, auctionId, status in {ACTIVE, CARRIED_OVER} })
PlaceBidFindBid(c) ==
  /\ bidCall[c].pc = "findBid"
  /\ \E i \in OneOf(LiveBids(bids, bidCall[c].userId, bidCall[c].auctionId)) :
       bidCall' = [bidCall EXCEPT ![c].pc = "lockRead",
                     ![c].existingBid = i,
                     ![c].bidAmount = IF i = 0 THEN 0 ELSE bids[i].amount]
  /\ UNCHANGED <<now, users, auctions, bids, items, redis, settleCall, sched,
                 failures,
                 createCall>>

\* lockFunds: await User.findById(userId) and the availability check
PlaceBidLockRead(c) ==
  /\ bidCall[c].pc = "lockRead"
  /\ bidCall' = IF lockFundsRejects(users[bidCall[c].userId], bidCall[c].amount)
                  THEN BidCallEnds(c, "InsufficientFunds")
                  ELSE [bidCall EXCEPT ![c].pc = "lockSave",
                          ![c].userRead = users[bidCall[c].userId]]
  /\ UNCHANGED <<now, users, auctions, bids, items, redis, settleCall, sched,
                 failures,
                 createCall>>

\* lockFunds: await user.save()
PlaceBidLockSave(c) ==
  /\ bidCall[c].pc = "lockSave"
  /\ users' = lockFundsSave(users, bidCall[c].userId, bidCall[c].userRead,
                            bidCall[c].amount)
  /\ bidCall' = [bidCall EXCEPT ![c].pc = "bidSave",
                   ![c].userRead = NoUser]
  /\ UNCHANGED <<now, auctions, bids, items, redis, settleCall, sched,
                 failures,
                 createCall>>

\* the anti-snipe test made right after the bid is saved, on the round as
\* it was read by findActiveRound
InAntiSnipeWindow(endTime, t) ==
  endTime - t > 0 /\ endTime - t <= AntiSnipeWindow

NewBid(u, a, amount, r) ==
  [exists |-> TRUE, userId |-> u, auctionId |-> a, amount |-> amount,
   status |-> "active", roundNumber |-> r, originalRound |-> r,
   isCarriedOver |-> FALSE]

\* await existingBid.save() (amount = amount read + increment) or await
\* bid.save() of a new Bid; then the anti-snipe test
PlaceBidSaveBid(c) ==
  /\ bidCall[c].pc = "bidSave"
  /\ LET b == bidCall[c]
         gone == b.existingBid # 0 /\ ~bids[b.existingBid].exists
         total == b.bidAmount + b.amount
     IN /\ bids' = IF gone THEN bids
                   ELSE IF b.existingBid # 0
                     THEN [bids EXCEPT ![b.existingBid].amount = total]
                     ELSE Append(bids, NewBid(b.userId, b.auctionId, b.amount,
                                              b.roundNumber))
        /\ bidCall' =
             IF gone THEN BidCallEnds(c, "DocumentNotFound")
             ELSE [bidCall EXCEPT
                     ![c].pc = IF InAntiSnipeWindow(b.endTime, now)
                                 THEN "extend" ELSE "zadd",
                     ![c].bidId = IF b.existingBid # 0 THEN b.existingBid
                                  ELSE Len(bids) + 1,
                     ![c].bidAmount = total,
                     ![c].newEndTime = IF InAntiSnipeWindow(b.endTime, now)
                                         THEN b.endTime + AntiSnipeExtension
                                         ELSE 0]
  /\ UNCHANGED <<now, users, auctions, items, redis, settleCall, sched,
                 failures,
                 createCall>>

\* await Auction.updateOne({ _id, 'rounds.roundNumber' },
\*   { $set: { 'rounds.$.endTime': newEndTime }, $inc: { 'rounds.$.extendedCount': 1 } })
ExtendRound(as, id, n, newEndTime) ==
  IF as[id].exists /\ RoundIndex(as[id], n) # 0
    THEN [as EXCEPT ![id].rounds[RoundIndex(as[id], n)].endTime = newEndTime,
                    ![id].rounds[RoundIndex(as[id], n)].extendedCount = @ + 1]
    ELSE as

PlaceBidExtend(c) ==
  /\ bidCall[c].pc = "extend"
  /\ auctions' = ExtendRound(auctions, bidCall[c].auctionId,
                             bidCall[c].roundNumber, bidCall[c].newEndTime)
  /\ bidCall' = [bidCall EXCEPT ![c].pc = "zadd", ![c].roundExtended = TRUE]
  /\ UNCHANGED <<now, users, bids, items, redis, settleCall, sched,
                 failures,
                 createCall>>

\* await redis.zadd(leaderboardKey, bid.amount, userId), then the return
zadd(rs, key, score, member) == [rs EXCEPT ![key][member] = score]

PlaceBidZadd(c) ==
  /\ bidCall[c].pc = "zadd"
  /\ redis' = zadd(redis, <<bidCall[c].auctionId, bidCall[c].roundNumber>>,
                   bidCall[c].bidAmount, bidCall[c].userId)
  /\ bidCall' = BidCallEnds(c, "ok")
  /\ UNCHANGED <<now, users, auctions, bids, items, settleCall, sched,
                 failures,
                 createCall>>

placeBid(c) ==
  \/ \E u \in Users, a \in KnownAuctions, amount \in Amounts :
       PlaceBidStart(c, u, a, amount)
  \/ PlaceBidFindAuction(c)
  \/ PlaceBidFindBid(c)
  \/ PlaceBidLockRead(c)
  \/ PlaceBidLockSave(c)
  \/ PlaceBidSaveBid(c)
  \/ PlaceBidExtend(c)
  \/ PlaceBidZadd(c)

(* ----------------- WalletService.lockFunds, called alone --------------- *)
\* a caller invokes WalletService.lockFunds(userId, amount)
LockFundsStart(c, u, amount) ==
  /\ bidCall[c].pc = "idle"
  /\ \A d \in BidCalls : d < c => bidCall[d].pc # "idle"
  /\ bidCall' = [bidCall EXCEPT ![c] =
                   [IdleBidCall EXCEPT !.pc = "escrowRead", !.userId = u,
                                       !.amount = amount]]
  /\ UNCHANGED <<now, users, auctions, bids, items, redis, settleCall, sched,
                 failures,
                 createCall>>

\* await User.findById(userId) and the availability check
LockFundsRead(c) ==
  /\ bidCall[c].pc = "escrowRead"
  /\ bidCall' = IF lockFundsRejects(users[bidCall[c].userId], bidCall[c].amount)
                  THEN BidCallEnds(c, "InsufficientFunds")
                  ELSE [bidCall EXCEPT ![c].pc = "escrowSave",
                          ![c].userRead = users[bidCall[c].userId]]
  /\ UNCHANGED <<now, users, auctions, bids, items, redis, settleCall, sched,
                 failures,
                 createCall>>

\* user.frozenFunds += amount; await user.save(); return user
LockFundsSave(c) ==
  /\ bidCall[c].pc = "escrowSave"
  /\ users' = lockFundsSave(users, bidCall[c].userId, bidCall[c].userRead,
                            bidCall[c].amount)
  /\ bidCall' = BidCallEnds(c, "ok")
  /\ UNCHANGED <<now, auctions, bids, items, redis, settleCall, sched,
                 failures,
                 createCall>>

lockFunds(c) ==
  \/ \E u \in Users, amount \in Amounts : LockFundsStart(c, u, amount)
  \/ LockFundsRead(c)
  \/ LockFundsSave(c)

(* --------------------- AuctionService.processRoundEnd ----------------- *)
\* the settle call ids not used yet; invocations take them in order
FreeSettleCalls == {s \in SettleCalls : settleCall[s].pc = "idle"}

NextSettleCall ==
  IF FreeSettleCalls = {} THEN 0
  ELSE CHOOSE s \in FreeSettleCalls : \A t \in FreeSettleCalls : s <= t

\* processRoundEnd(auctionId, roundNumber) runs up to its first await
StartedSettleCall(caller, a, r) ==
  [IdleSettleCall EXCEPT !.pc = "findAuction", !.caller = caller,
                         !.auctionId = a, !.roundNumber = r]

\* what a finished call leaves: its outcome and the counts it returned
EndedSettleCall(s, outcome) ==
  [IdleSettleCall EXCEPT !.pc = "done", !.result = outcome,
     !.caller = settleCall[s].caller,
     !.auctionId = settleCall[s].auctionId,
     !.roundNumber = settleCall[s].roundNumber,
     !.winnersCount = IF outcome = "ok" THEN settleCall[s].winnersCount ELSE 0,
     !.losersCarriedOver = IF outcome = "ok" THEN settleCall[s].losersCarriedOver ELSE 0,
     !.losersRefunded = IF outcome = "ok" THEN settleCall[s].losersRefunded ELSE 0]

\* the finally block of checkAndProcessRounds: isProcessing = false
TickEnds == [IdleSched EXCEPT !.skipped = sched.skipped]

SettleEndsAbortsTick(s, outcome) ==
  LET byTick == settleCall[s].caller = "sched"
      rest == IF byTick /\ outcome \in {"ok", "skipped"}
                THEN Tail(sched.queue) ELSE <<>>
      ended == [settleCall EXCEPT ![s] = EndedSettleCall(s, outcome)]
      free == {t \in SettleCalls : ended[t].pc = "idle"}
      next == CHOOSE t \in free : \A v \in free : t <= v
  IN IF ~byTick THEN /\ settleCall' = ended
                     /\ UNCHANGED sched
     ELSE IF rest = <<>> THEN /\ settleCall' = ended
                              /\ sched' = TickEnds
     ELSE /\ free # {}
          /\ settleCall' = [ended EXCEPT
                              ![next] = StartedSettleCall("sched", rest[1][1], rest[1][2])]
          /\ sched' = [sched EXCEPT !.queue = rest, !.running = next]

\* The call returns or throws.  When the scheduler made it, the tick goes on
\* in the same turn (checkAndProcessRounds: the try/catch around
\* processRoundEnd, the next auction of the for loop, and the finally block).
SettleEnds(s, outcome) ==
  LET byTick == settleCall[s].caller = "sched"
      rest == IF byTick THEN Tail(sched.queue) ELSE <<>>
      ended == [settleCall EXCEPT ![s] = EndedSettleCall(s, outcome)]
      free == {t \in SettleCalls : ended[t].pc = "idle"}
      next == CHOOSE t \in free : \A v \in free : t <= v
  IN IF ~byTick THEN /\ settleCall' = ended
                     /\ UNCHANGED sched
     ELSE IF rest = <<>> THEN /\ settleCall' = ended
                              /\ sched' = TickEnds
     ELSE /\ free # {}
          /\ settleCall' = [ended EXCEPT
                              ![next] = StartedSettleCall("sched", rest[1][1], rest[1][2])]
          /\ sched' = [sched EXCEPT !.queue = rest, !.running = next]

RoundSkippedOnlyWhenCompleted(round) == round.status = "completed"

\* if (round.status !== RoundStatus.ACTIVE) return the zero counts
RoundSkipped(round) == round.status # "active"

\* await Auction.findById(auctionId); the round is looked up in the document
\* read; a round that is not ACTIVE ends the call with the zero counts
SettleFindAuction(s) ==
  /\ settleCall[s].pc = "findAuction"
  /\ LET a == auctions[settleCall[s].auctionId]
         i == RoundIndex(a, settleCall[s].roundNumber)
     IN IF ~a.exists THEN SettleEnds(s, "AuctionNotFound")
        ELSE IF i = 0 THEN SettleEnds(s, "RoundNotActive")
        ELSE IF RoundSkipped(a.rounds[i]) THEN SettleEnds(s, "skipped")
        ELSE /\ settleCall' = [settleCall EXCEPT ![s].pc = "markFinalizing",
                                 ![s].itemsInRound = a.rounds[i].itemsInRound,
                                 ![s].totalRounds = a.totalRounds]
             /\ UNCHANGED sched
  /\ UNCHANGED <<now, users, auctions, bids, items, redis, bidCall, failures,
                 createCall>>

\* await Auction.updateOne({ _id, 'rounds.roundNumber' }, { 'rounds.$.status': FINALIZING })
SettleMarkFinalizing(s) ==
  /\ settleCall[s].pc = "markFinalizing"
  /\ auctions' = SetRoundStatus(auctions, settleCall[s].auctionId,
                                settleCall[s].roundNumber, "finalizing")
  /\ settleCall' = [settleCall EXCEPT ![s].pc = "readWinners"]
  /\ UNCHANGED <<now, users, bids, items, redis, bidCall, sched, failures,
                 createCall>>

LeaderboardKey(s) == <<settleCall[s].auctionId, settleCall[s].roundNumber>>

\* await redis.zrevrange(leaderboardKey, 0, itemsInRound - 1, 'WITHSCORES')
SettleReadWinners(s) ==
  /\ settleCall[s].pc = "readWinners"
  /\ LET winners == zrevrange(redis[LeaderboardKey(s)], settleCall[s].itemsInRound - 1)
     IN settleCall' = [settleCall EXCEPT
                         ![s].pc = IF winners = <<>> THEN "saveWinners" ELSE "winBid",
                         ![s].winners = winners,
                         ![s].rankIdx = 0]
  /\ UNCHANGED <<now, users, auctions, bids, items, redis, bidCall, sched, failures,
                 createCall>>

\* the winner the for loop is at (rankIdx counts from 0)
Winner(s) == settleCall[s].winners[settleCall[s].rankIdx + 1]

\* the loop goes to the next winner, or leaves for Auction.updateOne(winners)
AfterWinner(c) ==
  [c EXCEPT !.pc = IF c.rankIdx + 1 < Len(c.winners) THEN "winBid" ELSE "saveWinners",
            !.rankIdx = c.rankIdx + 1, !.bidId = 0, !.userRead = NoUser]

\* await Bid.findOneAndUpdate({ userId, auctionId, status in {ACTIVE, CARRIED_OVER} },
\*                            { status: WON })
SettleWinBid(s) ==
  /\ settleCall[s].pc = "winBid"
  /\ \E i \in OneOf(LiveBids(bids, Winner(s).oderId, settleCall[s].auctionId)) :
       IF i = 0
         THEN /\ settleCall' = [settleCall EXCEPT ![s] = AfterWinner(settleCall[s])]
              /\ UNCHANGED bids
         ELSE /\ bids' = [bids EXCEPT ![i].status = "won"]
              /\ settleCall' = [settleCall EXCEPT ![s].pc = "deductRead", ![s].bidId = i]
  /\ UNCHANGED <<now, users, auctions, items, redis, bidCall, sched, failures,
                 createCall>>

\* deductFunds(userId, winner.amount): await User.findById and the checks
SettleDeductRead(s) ==
  /\ settleCall[s].pc = "deductRead"
  /\ IF deductFundsRejects(users[Winner(s).oderId], Winner(s).amount)
       THEN SettleEnds(s, "InsufficientFunds")
       ELSE /\ settleCall' = [settleCall EXCEPT ![s].pc = "deductSave",
                                ![s].userRead = users[Winner(s).oderId]]
            /\ UNCHANGED sched
  /\ UNCHANGED <<now, users, auctions, bids, items, redis, bidCall, failures,
                 createCall>>

\* deductFunds: await user.save()
SettleDeductSave(s) ==
  /\ settleCall[s].pc = "deductSave"
  /\ users' = deductFundsSave(users, Winner(s).oderId, settleCall[s].userRead,
                              Winner(s).amount)
  /\ settleCall' = [settleCall EXCEPT ![s].pc = "assignItem", ![s].userRead = NoUser]
  /\ UNCHANGED <<now, auctions, bids, items, redis, bidCall, sched, failures,
                 createCall>>

\* itemSerialNumber = (roundNumber - 1) * itemsInRound + rankIdx + 1
ItemSerialNumber(roundNumber, itemsInRound, rankIdx) ==
  (roundNumber - 1) * itemsInRound + rankIdx + 1

\* await Item.findOneAndUpdate({ auctionId, serialNumber }, { ownerId, roundWon, bidId },
\*                             { upsert: true }); then roundWinners.push, winnersCount++
SettleAssignItem(s) ==
  /\ settleCall[s].pc = "assignItem"
  /\ LET c == settleCall[s]
         key == <<c.auctionId, ItemSerialNumber(c.roundNumber, c.itemsInRound, c.rankIdx)>>
     IN /\ items' = [items EXCEPT ![key] = [exists |-> TRUE, ownerId |-> Winner(s).oderId,
                                             roundWon |-> c.roundNumber, bidId |-> c.bidId]]
        /\ settleCall' = [settleCall EXCEPT ![s] =
             [AfterWinner(c) EXCEPT
                !.roundWinners = Append(c.roundWinners,
                   [userId |-> Winner(s).oderId, bidId |-> c.bidId,
                    amount |-> Winner(s).amount, rank |-> c.rankIdx + 1]),
                !.winnersCount = c.winnersCount + 1]]
  /\ UNCHANGED <<now, users, auctions, bids, redis, bidCall, sched, failures,
                 createCall>>

\* await Auction.updateOne({ _id, 'rounds.roundNumber' }, { 'rounds.$.winners': roundWinners })
SetRoundWinners(as, id, n, ws) ==
  IF as[id].exists /\ RoundIndex(as[id], n) # 0
    THEN [as EXCEPT ![id].rounds[RoundIndex(as[id], n)].winners = ws]
    ELSE as

SettleSaveWinners(s) ==
  /\ settleCall[s].pc = "saveWinners"
  /\ auctions' = SetRoundWinners(auctions, settleCall[s].auctionId,
                                 settleCall[s].roundNumber, settleCall[s].roundWinners)
  /\ settleCall' = [settleCall EXCEPT
                      ![s].pc = IF Len(settleCall[s].winners) > 0
                                  THEN "zremWinners" ELSE "readLosers"]
  /\ UNCHANGED <<now, users, bids, items, redis, bidCall, sched, failures,
                 createCall>>

\* await redis.zrem(leaderboardKey, ...winnerUserIds)
SettleZremWinners(s) ==
  /\ settleCall[s].pc = "zremWinners"
  /\ LET gone == {settleCall[s].winners[i].oderId : i \in DOMAIN settleCall[s].winners}
     IN redis' = [redis EXCEPT ![LeaderboardKey(s)] =
                    [u \in Users |-> IF u \in gone THEN 0 ELSE @[u]]]
  /\ settleCall' = [settleCall EXCEPT ![s].pc = "readLosers"]
  /\ UNCHANGED <<now, users, auctions, bids, items, bidCall, sched, failures,
                 createCall>>

\* isLastRound = roundNumber >= auction.totalRounds, on the document read at the start
IsLastRound(c) == c.roundNumber >= c.totalRounds

\* await redis.zrevrange(leaderboardKey, 0, -1, 'WITHSCORES'): the losers
SettleReadLosers(s) ==
  /\ settleCall[s].pc = "readLosers"
  /\ LET losers == zrevrange(redis[LeaderboardKey(s)], -1)
         c == settleCall[s]
     IN settleCall' = [settleCall EXCEPT
          ![s].losers = losers,
          ![s].loserIdx = 0,
          ![s].pc = IF IsLastRound(c)
                      THEN (IF losers = <<>> THEN "completeAuction" ELSE "refundBid")
                      ELSE (IF losers = <<>> THEN "activateNext" ELSE "carryBid")]
  /\ UNCHANGED <<now, users, auctions, bids, items, redis, bidCall, sched, failures,
                 createCall>>

Loser(s) == settleCall[s].losers[settleCall[s].loserIdx + 1]

\* last round: await Bid.updateOne({ userId, auctionId, status in {ACTIVE, CARRIED_OVER} },
\*                                 { status: REFUNDED })
SettleRefundBid(s) ==
  /\ settleCall[s].pc = "refundBid"
  /\ \E i \in OneOf(LiveBids(bids, Loser(s).oderId, settleCall[s].auctionId)) :
       bids' = IF i = 0 THEN bids ELSE [bids EXCEPT ![i].status = "refunded"]
  /\ settleCall' = [settleCall EXCEPT ![s].pc = "refundRead"]
  /\ UNCHANGED <<now, users, auctions, items, redis, bidCall, sched, failures,
                 createCall>>

\* refundFunds(loserUserId, loser.amount): await User.findById and the check
SettleRefundRead(s) ==
  /\ settleCall[s].pc = "refundRead"
  /\ IF refundFundsRejects(users[Loser(s).oderId], Loser(s).amount)
       THEN SettleEnds(s, "InsufficientFunds")
       ELSE /\ settleCall' = [settleCall EXCEPT ![s].pc = "refundSave",
                                ![s].userRead = users[Loser(s).oderId]]
            /\ UNCHANGED sched
  /\ UNCHANGED <<now, users, auctions, bids, items, redis, bidCall, failures,
                 createCall>>

\* refundFunds: await user.save(); losersRefunded++
SettleRefundSave(s) ==
  /\ settleCall[s].pc = "refundSave"
  /\ users' = refundFundsSave(users, Loser(s).oderId, settleCall[s].userRead,
                              Loser(s).amount)
  /\ LET c == settleCall[s]
     IN settleCall' = [settleCall EXCEPT
          ![s].pc = IF c.loserIdx + 1 < Len(c.losers) THEN "refundBid"
                    ELSE "completeAuction",
          ![s].loserIdx = c.loserIdx + 1,
          ![s].userRead = NoUser,
          ![s].losersRefunded = c.losersRefunded + 1]
  /\ UNCHANGED <<now, auctions, bids, items, redis, bidCall, sched, failures,
                 createCall>>

\* last round: await Auction.updateOne({ _id }, { status: COMPLETED })
SettleCompleteAuction(s) ==
  /\ settleCall[s].pc = "completeAuction"
  /\ auctions' = IF auctions[settleCall[s].auctionId].exists
                   THEN [auctions EXCEPT ![settleCall[s].auctionId].status = "completed"]
                   ELSE auctions
  /\ settleCall' = [settleCall EXCEPT ![s].pc = "delKey"]
  /\ UNCHANGED <<now, users, bids, items, redis, bidCall, sched, failures,
                 createCall>>

\* the carry-over update of one live bid: status, roundNumber, isCarriedOver
CarriedOver(bid, nextRoundNumber) ==
  [bid EXCEPT !.status = "carried_over", !.roundNumber = nextRoundNumber,
              !.isCarriedOver = TRUE]

\* not the last round: await Bid.updateOne(... { status: CARRIED_OVER,
\*   roundNumber: nextRoundNumber, isCarriedOver: true }); losersCarriedOver++
SettleCarryBid(s) ==
  /\ settleCall[s].pc = "carryBid"
  /\ \E i \in OneOf(LiveBids(bids, Loser(s).oderId, settleCall[s].auctionId)) :
       bids' = IF i = 0 THEN bids
               ELSE [bids EXCEPT ![i] = CarriedOver(bids[i], settleCall[s].roundNumber + 1)]
  /\ LET c == settleCall[s]
     IN settleCall' = [settleCall EXCEPT
          ![s].pc = IF c.loserIdx + 1 < Len(c.losers) THEN "carryBid" ELSE "seedNext",
          ![s].loserIdx = c.loserIdx + 1,
          ![s].losersCarriedOver = c.losersCarriedOver + 1]
  /\ UNCHANGED <<now, users, auctions, items, redis, bidCall, sched, failures,
                 createCall>>

\* pipeline.zadd(nextRoundKey, loser.amount, loser.oderId) for every loser; exec
SettleSeedNext(s) ==
  /\ settleCall[s].pc = "seedNext"
  /\ LET c == settleCall[s]
         amountOf(u) == c.losers[CHOOSE i \in DOMAIN c.losers : c.losers[i].oderId = u].amount
         carried == {c.losers[i].oderId : i \in DOMAIN c.losers}
     IN redis' = [redis EXCEPT ![<<c.auctionId, c.roundNumber + 1>>] =
                    [u \in Users |-> IF u \in carried THEN amountOf(u) ELSE @[u]]]
  /\ settleCall' = [settleCall EXCEPT ![s].pc = "activateNext"]
  /\ UNCHANGED <<now, users, auctions, bids, items, bidCall, sched, failures,
                 createCall>>

\* await Auction.updateOne({ _id, 'rounds.roundNumber': nextRoundNumber },
\*                         { 'rounds.$.status': ACTIVE })
SettleActivateNext(s) ==
  /\ settleCall[s].pc = "activateNext"
  /\ auctions' = SetRoundStatus(auctions, settleCall[s].auctionId,
                                settleCall[s].roundNumber + 1, "active")
  /\ settleCall' = [settleCall EXCEPT ![s].pc = "setCurrentRound"]
  /\ UNCHANGED <<now, users, bids, items, redis, bidCall, sched, failures,
                 createCall>>

\* await Auction.updateOne({ _id }, { currentRound: nextRoundNumber })
SettleSetCurrentRound(s) ==
  /\ settleCall[s].pc = "setCurrentRound"
  /\ auctions' = IF auctions[settleCall[s].auctionId].exists
                   THEN [auctions EXCEPT ![settleCall[s].auctionId].currentRound =
                                            settleCall[s].roundNumber + 1]
                   ELSE auctions
  /\ settleCall' = [settleCall EXCEPT ![s].pc = "delKey"]
  /\ UNCHANGED <<now, users, bids, items, redis, bidCall, sched, failures,
                 createCall>>

\* await redis.del(leaderboardKey)
SettleDelKey(s) ==
  /\ settleCall[s].pc = "delKey"
  /\ redis' = [redis EXCEPT ![LeaderboardKey(s)] = EmptyZSet]
  /\ settleCall' = [settleCall EXCEPT ![s].pc = "completeRound"]
  /\ UNCHANGED <<now, users, auctions, bids, items, bidCall, sched, failures,
                 createCall>>

\* await Auction.updateOne({ _id, 'rounds.roundNumber' }, { 'rounds.$.status': COMPLETED })
\* and the return of the three counts
SettleCompleteRound(s) ==
  /\ settleCall[s].pc = "completeRound"
  /\ auctions' = SetRoundStatus(auctions, settleCall[s].auctionId,
                                settleCall[s].roundNumber, "completed")
  /\ SettleEnds(s, "ok")
  /\ UNCHANGED <<now, users, bids, items, redis, bidCall, failures,
                 createCall>>

processRoundEnd(s) ==
  \/ SettleFindAuction(s)
  \/ SettleMarkFinalizing(s)
  \/ SettleReadWinners(s)
  \/ SettleWinBid(s)
  \/ SettleDeductRead(s)
  \/ SettleDeductSave(s)
  \/ SettleAssignItem(s)
  \/ SettleSaveWinners(s)
  \/ SettleZremWinners(s)
  \/ SettleReadLosers(s)
  \/ SettleRefundBid(s)
  \/ SettleRefundRead(s)
  \/ SettleRefundSave(s)
  \/ SettleCompleteAuction(s)
  \/ SettleCarryBid(s)
  \/ SettleSeedNext(s)
  \/ SettleActivateNext(s)
  \/ SettleSetCurrentRound(s)
  \/ SettleDelKey(s)
  \/ SettleCompleteRound(s)

(* --------------------------- SchedulerService ------------------------- *)
\* processRoundManually(auctionId, roundNumber): processRoundEnd, outside the tick
processRoundManually(a, r) ==
  /\ FreeSettleCalls # {}
  /\ InFlight < MaxInFlight
  /\ settleCall' = [settleCall EXCEPT ![NextSettleCall] = StartedSettleCall("manual", a, r)]
  /\ UNCHANGED <<now, users, auctions, bids, items, redis, bidCall, sched, failures,
                 createCall>>

TickNeverReturnsAtOnce(sc) == FALSE

\* if (this.isProcessing) return
TickReturnsAtOnce(sc) == sc.isProcessing

\* the cron tick: checkAndProcessRounds returns at once while isProcessing;
\* otherwise it sets the flag, reads the clock and awaits Auction.find
SchedTick ==
  /\ ~TickReturnsAtOnce(sched)
  /\ InFlight < MaxInFlight
  /\ sched' = [TickEnds EXCEPT !.isProcessing = TRUE, !.pc = "find", !.tickTime = now]
  /\ UNCHANGED <<now, users, auctions, bids, items, redis, bidCall, settleCall, failures,
                 createCall>>

\* the round the tick settles in an auction it found: the first ACTIVE round
\* with endTime <= now, now being the clock the tick read
ExpiredRound(a, t) ==
  LET due == {i \in DOMAIN a.rounds : a.rounds[i].status = "active" /\ a.rounds[i].endTime <= t}
  IN IF due = {} THEN 0 ELSE CHOOSE i \in due : \A j \in due : i <= j

RECURSIVE ExpiredFrom(_, _)
ExpiredFrom(a, t) ==
  IF a > MaxAuctions THEN <<>>
  ELSE IF /\ auctions[a].exists
          /\ auctions[a].status = "active"
          /\ ExpiredRound(auctions[a], t) # 0
    THEN <<<<a, auctions[a].rounds[ExpiredRound(auctions[a], t)].roundNumber>>>>
           \o ExpiredFrom(a + 1, t)
    ELSE ExpiredFrom(a + 1, t)

\* await Auction.find({ status: ACTIVE, rounds: { $elemMatch: { status: ACTIVE,
\* endTime <= now } } }); the for loop starts processRoundEnd for the first one
SchedFind ==
  /\ sched.pc = "find"
  /\ LET queue == ExpiredFrom(1, sched.tickTime)
     IN IF queue = <<>>
          THEN /\ sched' = TickEnds
               /\ UNCHANGED settleCall
          ELSE /\ FreeSettleCalls # {}
               /\ sched' = [sched EXCEPT !.pc = "loop", !.queue = queue,
                                         !.found = Len(queue),
                                         !.running = NextSettleCall]
               /\ settleCall' = [settleCall EXCEPT ![NextSettleCall] =
                                   StartedSettleCall("sched", queue[1][1], queue[1][2])]
  /\ UNCHANGED <<now, users, auctions, bids, items, redis, bidCall, failures,
                 createCall>>

\* the cron timer fires while the previous tick is still running
SchedTickSkipped ==
  /\ TickReturnsAtOnce(sched)
  /\ sched.skipped < MaxSkipped
  /\ sched' = [sched EXCEPT !.skipped = @ + 1]
  /\ UNCHANGED <<now, users, auctions, bids, items, redis, bidCall, settleCall,
                 createCall, failures>>

checkAndProcessRounds == SchedTick \/ SchedTickSkipped \/ SchedFind

(* ---------------------- AuctionService.createAuction ------------------ *)
\* the _id of the document the invocation builds: ObjectIds are fresh, the
\* seeded auction has the first
NewAuctionId(k) == 1 + k

\* Auction.find({ status: ACTIVE }): the documents as they are when read
ActiveAuctionsFrom(a) ==
  LET pick[i \in 0..MaxAuctions] ==
        IF i = 0 THEN <<>>
        ELSE LET id == MaxAuctions + 1 - i
             IN IF auctions[id].exists /\ auctions[id].status = "active"
                  THEN <<[id |-> id, totalRounds |-> auctions[id].totalRounds]>> \o pick[i - 1]
                  ELSE pick[i - 1]
  IN pick[MaxAuctions + 1 - a]

\* a caller invokes createAuction({ itemsPerRound, totalRounds })
CreateStart(k, n, ipr) ==
  /\ createCall[k].pc = "idle"
  /\ NewAuctionId(k) \in AuctionIds
  /\ InFlight < MaxInFlight
  /\ \A j \in CreateCalls : j < k => createCall[j].pc # "idle"
  /\ createCall' = [createCall EXCEPT ![k] =
                      [IdleCreateCall EXCEPT !.pc = "find", !.totalRounds = n,
                                             !.itemsPerRound = ipr,
                                             !.auctionId = NewAuctionId(k)]]
  /\ UNCHANGED <<now, users, auctions, bids, items, redis, bidCall, settleCall,
                 sched, failures>>

\* the for loop over existingAuctions is at its next document, or is over:
\* then `now = new Date()` is read and the rounds are built from it
CreateLoop(c, rest) ==
  IF rest = <<>>
    THEN [c EXCEPT !.pc = "save", !.existing = <<>>, !.r = 0, !.createdAt = now]
    ELSE [c EXCEPT !.pc = "delKey", !.existing = rest, !.r = 1]

\* await Auction.find({ status: ACTIVE })
CreateFind(k) ==
  /\ createCall[k].pc = "find"
  /\ createCall' = [createCall EXCEPT ![k] =
                      CreateLoop(createCall[k], ActiveAuctionsFrom(1))]
  /\ UNCHANGED <<now, users, auctions, bids, items, redis, bidCall, settleCall,
                 sched, failures>>

\* await this.redis.del(key) for round r of the existing auction
CreateDelKey(k) ==
  /\ createCall[k].pc = "delKey"
  /\ LET c == createCall[k]
         old == c.existing[1]
     IN /\ redis' = [key \in RedisKeys |->
                       IF key = <<old.id, c.r>> THEN EmptyZSet ELSE redis[key]]
        /\ createCall' = [createCall EXCEPT
                            ![k].pc = IF c.r < old.totalRounds THEN "delKey"
                                      ELSE "deleteBids",
                            ![k].r = c.r + 1]
  /\ UNCHANGED <<now, users, auctions, bids, items, bidCall, settleCall,
                 sched, failures>>

\* await Bid.deleteMany({ auctionId: existing._id })
DeleteBids(bs, a) ==
  [i \in DOMAIN bs |-> IF bs[i].auctionId = a THEN [bs[i] EXCEPT !.exists = FALSE]
                       ELSE bs[i]]

CreateDeleteBids(k) ==
  /\ createCall[k].pc = "deleteBids"
  /\ bids' = DeleteBids(bids, createCall[k].existing[1].id)
  /\ createCall' = [createCall EXCEPT ![k].pc = "deleteItems"]
  /\ UNCHANGED <<now, users, auctions, items, redis, bidCall, settleCall,
                 sched, failures>>

\* await Item.deleteMany({ auctionId: existing._id })
CreateDeleteItems(k) ==
  /\ createCall[k].pc = "deleteItems"
  /\ items' = [key \in ItemKeys |->
                 IF key[1] = createCall[k].existing[1].id THEN NoItem ELSE items[key]]
  /\ createCall' = [createCall EXCEPT ![k].pc = "deleteOne"]
  /\ UNCHANGED <<now, users, auctions, bids, redis, bidCall, settleCall,
                 sched, failures>>

\* await existing.deleteOne(); then the next existing auction, or the rounds
CreateDeleteOne(k) ==
  /\ createCall[k].pc = "deleteOne"
  /\ auctions' = [auctions EXCEPT ![createCall[k].existing[1].id] = NoAuction]
  /\ createCall' = [createCall EXCEPT ![k] =
                      CreateLoop(createCall[k], Tail(createCall[k].existing))]
  /\ UNCHANGED <<now, users, bids, items, redis, bidCall, settleCall,
                 sched, failures>>

\* await auction.save() of the new Auction; then itemsData is built
CreateSave(k) ==
  /\ createCall[k].pc = "save"
  /\ LET c == createCall[k]
     IN auctions' = [auctions EXCEPT ![c.auctionId] =
                       NewAuction(c.createdAt, c.totalRounds, c.itemsPerRound)]
  /\ createCall' = [createCall EXCEPT ![k].pc = "insertItems"]
  /\ UNCHANGED <<now, users, bids, items, redis, bidCall, settleCall,
                 sched, failures>>

\* Item.insertMany(itemsData) is ordered: it inserts serial numbers 1, 2, ...
\* and stops at the first one the unique index { auctionId, serialNumber }
\* already holds
InsertedItems(old, a, totalItems) ==
  LET taken == {n \in 1..totalItems : old[<<a, n>>].exists}
  IN NewItems(old, a, IF taken = {} THEN totalItems
                      ELSE (CHOOSE n \in taken : \A m \in taken : n <= m) - 1)

\* await Item.insertMany(itemsData); return auction
CreateInsertItems(k) ==
  /\ createCall[k].pc = "insertItems"
  /\ LET c == createCall[k]
         totalItems == c.itemsPerRound * c.totalRounds
         duplicate == \E n \in 1..totalItems : items[<<c.auctionId, n>>].exists
     IN /\ items' = InsertedItems(items, c.auctionId, totalItems)
        /\ createCall' = [createCall EXCEPT
                            ![k].pc = "done",
                            ![k].existing = <<>>,
                            ![k].r = 0,
                            ![k].result = IF duplicate THEN "DuplicateKey" ELSE "ok"]
  /\ UNCHANGED <<now, users, auctions, bids, redis, bidCall, settleCall,
                 sched, failures>>

createAuction(k) ==
  \/ \E n \in 1..MaxRounds, ipr \in 1..MaxItemsPerRound : CreateStart(k, n, ipr)
  \/ CreateFind(k)
  \/ CreateDelKey(k)
  \/ CreateDeleteBids(k)
  \/ CreateDeleteItems(k)
  \/ CreateDeleteOne(k)
  \/ CreateSave(k)
  \/ CreateInsertItems(k)

(* ------------------------------ failures ------------------------------ *)
ZaddErrorIsThrown(pc) == FALSE

\* try { await this.redis.zadd(...) } catch (redisError) { console.error(...) }
ZaddErrorIsCaught(pc) == pc = "zadd"

\* An awaited store operation rejects (the connection drops, the process is
\* killed and restarted between two steps): the operation has no effect and
\* the error leaves the handler.  placeBid catches only the error of zadd
\* (try/catch around redis.zadd) and then returns normally.
BidCallFails(c) ==
  /\ bidCall[c].pc \notin {"idle", "done"}
  /\ failures < MaxFailures
  /\ failures' = failures + 1
  /\ bidCall' = BidCallEnds(c, IF ZaddErrorIsCaught(bidCall[c].pc) THEN "ok"
                                ELSE "StoreError")
  /\ UNCHANGED <<now, users, auctions, bids, items, redis, settleCall, sched,
                 createCall>>

\* processRoundEnd catches nothing; the scheduler's try/catch logs the error
SettleCallFails(s) ==
  /\ settleCall[s].pc \notin {"idle", "done"}
  /\ failures < MaxFailures
  /\ failures' = failures + 1
  /\ SettleEnds(s, "StoreError")
  /\ UNCHANGED <<now, users, auctions, bids, items, redis, bidCall,
                 createCall>>

\* time passes
Tick ==
  /\ now < MaxTime
  /\ now' = now + 1
  /\ UNCHANGED <<users, auctions, bids, items, redis, bidCall, settleCall,
                 sched, failures,
                 createCall>>

\* time passes beyond MaxTime, in the scenarios that follow a round past its
\* scheduled end
LateTick ==
  /\ now >= MaxTime
  /\ now < MaxLateTime
  /\ now' = now + 1
  /\ UNCHANGED <<users, auctions, bids, items, redis, bidCall, settleCall,
                 createCall, sched, failures>>

\* The environment: callers of placeBid, the cron timer and an operator
\* calling processRoundManually.  A scenario gives placeBid invocations
\* 1..nBids and processRoundEnd invocations 1..nSettles.
CanSettle(nSettles) == NextSettleCall # 0 /\ NextSettleCall <= nSettles

Next ==
  \/ \E c \in 1..BidBudget : placeBid(c)
  \/ \E s \in SettleCalls : processRoundEnd(s)
  \/ \E a \in KnownAuctions, r \in RoundNumbers :
       CanSettle(SettleBudget) /\ processRoundManually(a, r)
  \/ CanSettle(SettleBudget) /\ SchedTick
  \/ SchedFind
  \/ Tick

Spec == Init /\ [][Next]_vars

\* Settlement racing with settlement and with bids while the clock stands
\* still: an operator settles rounds by hand.
NextManual ==
  \/ \E c \in 1..BidBudget : placeBid(c)
  \/ \E s \in SettleCalls : processRoundEnd(s)
  \/ \E a \in KnownAuctions, r \in RoundNumbers :
       CanSettle(SettleBudget + 1) /\ processRoundManually(a, r)

SpecManual == InitClosing /\ [][NextManual]_vars

\* Overlapping settlements of an auction of LongRounds rounds that nobody
\* bids in: the leaderboards stay empty, so the winner and loser loops of
\* processRoundEnd have nothing to do.
NextRounds ==
  \/ \E s \in SettleCalls :
       \/ SettleFindAuction(s)
       \/ SettleMarkFinalizing(s)
       \/ SettleReadWinners(s)
       \/ SettleSaveWinners(s)
       \/ SettleReadLosers(s)
       \/ SettleCompleteAuction(s)
       \/ SettleActivateNext(s)
       \/ SettleSetCurrentRound(s)
       \/ SettleDelKey(s)
       \/ SettleCompleteRound(s)
  \/ \E a \in KnownAuctions, r \in RoundNumbers :
       CanSettle(MaxSettleCalls) /\ processRoundManually(a, r)

SpecRounds == InitLong /\ [][NextRounds]_vars

\* Bids and one settlement, with store operations that may fail.
NextFaults ==
  \/ \E c \in 1..BidBudget : placeBid(c) \/ BidCallFails(c)
  \/ \E s \in SettleCalls : processRoundEnd(s) \/ SettleCallFails(s)
  \/ \E a \in KnownAuctions, r \in RoundNumbers :
       CanSettle(SettleBudget) /\ processRoundManually(a, r)

SpecFaults == InitClosing /\ [][NextFaults]_vars

\* An administrator creating auctions while the scheduler settles the rounds
\* that expire; nobody bids, and a store operation of a settlement may fail.
NextAdmin ==
  \/ \E k \in CreateCalls : createAuction(k)
  \/ CanSettle(MaxSettleCalls - 1) /\ SchedTick
  \/ SchedTickSkipped
  \/ SchedFind
  \/ \E s \in SettleCalls :
       \/ SettleFindAuction(s)
       \/ SettleMarkFinalizing(s)
       \/ SettleReadWinners(s)
       \/ SettleSaveWinners(s)
       \/ SettleReadLosers(s)
       \/ SettleCompleteAuction(s)
       \/ SettleActivateNext(s)
       \/ SettleSetCurrentRound(s)
       \/ SettleDelKey(s)
       \/ SettleCompleteRound(s)
       \/ SettleCallFails(s)
  \/ Tick

SpecAdmin == Init /\ [][NextAdmin]_vars

\* Bids and the scheduler alone, nobody settling by hand, with store
\* operations that may fail: what a failed settlement leaves stays as it is.
NextUnattended ==
  \/ \E c \in 1..BidBudget : placeBid(c)
  \/ \E s \in SettleCalls : processRoundEnd(s) \/ SettleCallFails(s)
  \/ CanSettle(SettleBudget + 1) /\ SchedTick
  \/ SchedFind
  \/ Tick

SpecUnattended == Init /\ [][NextUnattended]_vars

\* Bidders alone: MaxBidCalls placeBid invocations while the clock stands in
\* the anti-snipe window of round 1.
NextBids == \E c \in BidCalls : placeBid(c)

SpecBids == InitClosing /\ [][NextBids]_vars

\* Bidders who keep extending round 1 and the scheduler that settles it when
\* it has expired at last.
NextSnipe ==
  \/ \E c \in 1..BidBudget : placeBid(c)
  \/ \E s \in SettleCalls : processRoundEnd(s)
  \/ CanSettle(SettleBudget) /\ SchedTick
  \/ SchedFind
  \/ Tick
  \/ LateTick

SpecSnipe == Init /\ [][NextSnipe]_vars

\* The scheduler left to itself with an auction nobody bids in, while the
\* clock runs past the scheduled end of the last round; a store operation of
\* a settlement may fail.  The cron timer keeps firing, every awaited
\* operation returns or rejects, and time passes.
SettleWithoutBids(s) ==
  \/ SettleFindAuction(s)
  \/ SettleMarkFinalizing(s)
  \/ SettleReadWinners(s)
  \/ SettleSaveWinners(s)
  \/ SettleReadLosers(s)
  \/ SettleCompleteAuction(s)
  \/ SettleActivateNext(s)
  \/ SettleSetCurrentRound(s)
  \/ SettleDelKey(s)
  \/ SettleCompleteRound(s)

NextLive ==
  \/ CanSettle(MaxSettleCalls) /\ SchedTick
  \/ SchedFind
  \/ \E s \in SettleCalls : SettleWithoutBids(s) \/ SettleCallFails(s)
  \/ Tick
  \/ LateTick

SpecLive ==
  /\ Init
  /\ [][NextLive]_vars
  /\ WF_vars(CanSettle(MaxSettleCalls) /\ SchedTick)
  /\ WF_vars(SchedFind)
  /\ \A s \in SettleCalls : WF_vars(SettleWithoutBids(s))
  /\ WF_vars(Tick)
  /\ WF_vars(LateTick)

\* Bidders and an administrator who replaces the auction they bid in.
NextReplace ==
  \/ \E c \in 1..BidBudget : placeBid(c)
  \/ createAuction(1)

SpecReplace == InitClosing /\ [][NextReplace]_vars

\* Callers of WalletService.lockFunds alone, any number of them at once.
NextEscrow == \E c \in BidCalls : lockFunds(c)

SpecEscrow == Init /\ [][NextEscrow]_vars

(* ------------------------------ properties ---------------------------- *)
\* no placeBid, processRoundEnd or scheduler tick is between two of its steps
Quiescent ==
  /\ \A c \in BidCalls : bidCall[c].pc \in {"idle", "done"}
  /\ \A s \in SettleCalls : settleCall[s].pc \in {"idle", "done"}
  /\ ~sched.isProcessing

RECURSIVE SumAmounts(_, _)
SumAmounts(bs, S) ==
  IF S = {} THEN 0
  ELSE LET i == CHOOSE j \in S : TRUE
       IN bs[i].amount + SumAmounts(bs, S \ {i})

\* the user's Active and CarriedOver bids, in any auction
LiveBidsOf(bs, u) ==
  {i \in DOMAIN bs : bs[i].exists /\ bs[i].userId = u /\ bs[i].status \in Live}

Min(m, n) == IF m <= n THEN m ELSE n

\* C1: for every user, in every reachable state, balance >= frozenFunds >= 0.
LedgerInvariant ==
  \A u \in Users :
    users[u].balance >= users[u].frozenFunds /\ users[u].frozenFunds >= 0

\* C2: when every one of the concurrent lockFunds calls has returned and all
\* of them asked the same amount a of the same user, whose available balance
\* was InitialBalance, exactly floor(InitialBalance / a) of them succeeded,
\* the others failed with InsufficientFunds, and frozenFunds has grown from 0
\* to a times the number of successes.
EscrowSucceedsFloorTimes ==
  \A u \in Users, a \in Amounts :
    (\A c \in BidCalls : /\ bidCall[c].pc = "done"
                         /\ bidCall[c].userId = u
                         /\ bidCall[c].amount = a)
    => LET succeeded == {c \in BidCalls : bidCall[c].result = "ok"}
       IN /\ Cardinality(succeeded) = InitialBalance \div a
          /\ \A c \in BidCalls \ succeeded : bidCall[c].result = "InsufficientFunds"
          /\ users[u].frozenFunds = a * Cardinality(succeeded)

\* C3: in every state where no call is mid-execution, each user's
\* frozenFunds equals the sum of the amounts of the user's Active and
\* CarriedOver bids.
EscrowMatchesLiveBids ==
  Quiescent =>
    \A u \in Users : users[u].frozenFunds = SumAmounts(bids, LiveBidsOf(bids, u))

\* C4: in every reachable state, every (user, auction) pair has at most one
\* bid whose status is Active or CarriedOver.
AtMostOneLiveBid ==
  \A u \in Users, a \in AuctionIds : Cardinality(LiveBids(bids, u, a)) <= 1

\* C5: in every reachable state, every auction has at most one round whose
\* status is Active.
AtMostOneActiveRound ==
  \A a \in AuctionIds :
    auctions[a].exists =>
      Cardinality({i \in DOMAIN auctions[a].rounds :
                     auctions[a].rounds[i].status = "active"}) <= 1

\* the status, in the store, of the round a placeBid call read
RoundStatusOf(c) ==
  LET a == auctions[bidCall[c].auctionId]
  IN a.rounds[RoundIndex(a, bidCall[c].roundNumber)].status

\* C6: once its round is no longer Active in the store, a placeBid that read
\* the round while it was Active takes no further step except to fail with
\* RoundNotActive, and writes nothing: no escrow, no bid, no rank-store
\* entry, no deadline extension.
NoCommitAfterFinalizing ==
  [][\A c \in BidCalls :
       (/\ bidCall[c].pc \in {"findBid", "lockRead", "lockSave", "bidSave",
                               "extend", "zadd"}
        /\ bidCall'[c] # bidCall[c]
        /\ RoundStatusOf(c) # "active")
       => /\ bidCall'[c].pc = "done"
          /\ bidCall'[c].result = "RoundNotActive"
          /\ UNCHANGED <<users, bids, redis, auctions>>]_vars

\* C7: of the processRoundEnd invocations running at once for one (auction,
\* round), at most one is past the Active -> Finalizing update.
SingleFinalizer ==
  \A a \in AuctionIds, r \in RoundNumbers :
    Cardinality({s \in SettleCalls :
                   /\ settleCall[s].auctionId = a
                   /\ settleCall[s].roundNumber = r
                   /\ settleCall[s].pc \notin {"idle", "findAuction",
                                                "markFinalizing", "done"}}) <= 1

\* C8: a processRoundEnd invocation that finds its round in a status other
\* than Active returns at once with winnersCount, losersCarriedOver and
\* losersRefunded all 0, and users, bids, items, auctions (rounds included)
\* and the rank store are as they were.
SettleNonActiveIsNoOp ==
  [][\A s \in SettleCalls :
       LET a == auctions[settleCall[s].auctionId]
           i == RoundIndex(a, settleCall[s].roundNumber)
       IN (/\ settleCall[s].pc = "findAuction"
           /\ settleCall'[s] # settleCall[s]
           /\ a.exists
           /\ i # 0
           /\ a.rounds[i].status \in {"pending", "finalizing", "completed"})
          => /\ settleCall'[s].pc = "done"
             /\ settleCall'[s].result = "skipped"
             /\ settleCall'[s].winnersCount = 0
             /\ settleCall'[s].losersCarriedOver = 0
             /\ settleCall'[s].losersRefunded = 0
             /\ UNCHANGED <<users, bids, items, auctions, redis>>]_vars

\* C8 happens: a round was settled to Completed by one invocation, and a
\* second invocation for the same round has returned the zero counts
SettledTwice ==
  \E s \in SettleCalls, t \in SettleCalls :
    /\ settleCall[s].pc = "done" /\ settleCall[s].result = "ok"
    /\ settleCall[t].pc = "done" /\ settleCall[t].result = "skipped"
    /\ settleCall[t].auctionId = settleCall[s].auctionId
    /\ settleCall[t].roundNumber = settleCall[s].roundNumber
    /\ LET a == auctions[settleCall[s].auctionId]
       IN a.rounds[RoundIndex(a, settleCall[s].roundNumber)].status = "completed"

\* the bids that took part in round r of auction a, seen after the round's
\* only settlement: those still carrying roundNumber r, and those the
\* settlement carried over to round r + 1
Participants(bs, a, r) ==
  {i \in DOMAIN bs :
     /\ bs[i].exists
     /\ bs[i].auctionId = a
     /\ \/ bs[i].roundNumber = r
        \/ bs[i].roundNumber = r + 1 /\ bs[i].isCarriedOver}

\* C9: when processRoundEnd returns from settling round r, exactly
\* min(itemsInRound, n) of the n participating bids are Won, no Won amount is
\* below a non-winning amount, and the round's winners carry the ranks 1, 2,
\* ... in descending order of amount.
TopBidsWin ==
  [][\A s \in SettleCalls :
       (/\ settleCall[s].pc = "completeRound"
        /\ settleCall'[s].pc = "done"
        /\ settleCall'[s].result = "ok")
       => LET a == settleCall[s].auctionId
              r == settleCall[s].roundNumber
              round == auctions'[a].rounds[RoundIndex(auctions'[a], r)]
              took == Participants(bids', a, r)
              won == {i \in took : bids'[i].status = "won"}
          IN /\ Cardinality(won) = Min(round.itemsInRound, Cardinality(took))
             /\ \A i \in won, j \in took \ won : bids'[i].amount >= bids'[j].amount
             /\ Len(round.winners) = Cardinality(won)
             /\ \A n \in DOMAIN round.winners :
                  /\ round.winners[n].rank = n
                  /\ round.winners[n].bidId \in won
                  /\ n > 1 => round.winners[n - 1].amount >= round.winners[n].amount]_vars

\* C10: the debit of a winner takes the amount of the winning bid, as the
\* Bid Book holds it, off the user's balance and off the user's frozenFunds;
\* the bid is Won and the RoundWinner entry records that same amount.
WinnerPaysBidAmount ==
  [][\A s \in SettleCalls :
       LET u == Winner(s).oderId
           bid == bids[settleCall[s].bidId]
       IN /\ (settleCall[s].pc = "deductSave" /\ settleCall'[s].pc = "assignItem")
             => /\ users'[u].balance = users[u].balance - bid.amount
                /\ users'[u].frozenFunds = users[u].frozenFunds - bid.amount
          /\ (settleCall[s].pc = "assignItem" /\ settleCall'[s].pc \in {"winBid", "saveWinners"})
             => /\ bid.status = "won"
                /\ settleCall'[s].roundWinners[Len(settleCall'[s].roundWinners)].amount
                     = bid.amount]_vars

\* C11: when processRoundEnd returns from settling a round that is not the
\* last, no bid of the auction is left Active or CarriedOver with that
\* round's number (every non-winning bid moved to round r + 1); the
\* carry-over step sets status CarriedOver, roundNumber r + 1 and
\* isCarriedOver on a bid and nothing else on it, and no step of the
\* settlement other than the debit of a winner changes a user's balance or
\* frozenFunds.
LosersCarriedOver ==
  [][\A s \in SettleCalls :
       LET c == settleCall[s]
       IN /\ (c.pc = "carryBid" /\ settleCall'[s] # c)
             => /\ UNCHANGED users
                /\ \A i \in DOMAIN bids :
                     bids'[i] # bids[i]
                     => bids'[i] = [bids[i] EXCEPT !.status = "carried_over",
                                                   !.roundNumber = c.roundNumber + 1,
                                                   !.isCarriedOver = TRUE]
          /\ (/\ c.pc = "completeRound"
              /\ settleCall'[s].pc = "done"
              /\ settleCall'[s].result = "ok"
              /\ ~IsLastRound(c))
             => \A i \in DOMAIN bids' :
                  (/\ bids'[i].exists
                   /\ bids'[i].auctionId = c.auctionId
                   /\ bids'[i].status \in Live)
                  => /\ bids'[i].roundNumber = c.roundNumber + 1
                     /\ bids'[i].status = "carried_over"
                     /\ bids'[i].isCarriedOver]_vars

\* C12: in the settlement of the last round, the refund step turns a bid
\* Refunded and the amount about to be released is that bid's amount; the
\* release lowers the owner's frozenFunds by exactly that amount and leaves
\* every balance alone; and when processRoundEnd returns, no bid of the
\* auction is left Active or CarriedOver, no item records a Refunded bid,
\* and the auction is Completed.
LosersRefunded ==
  [][\A s \in SettleCalls :
       LET c == settleCall[s]
       IN /\ (c.pc = "refundBid" /\ settleCall'[s] # c)
             => \A i \in DOMAIN bids :
                  bids'[i] # bids[i]
                  => /\ bids'[i] = [bids[i] EXCEPT !.status = "refunded"]
                     /\ Loser(s).amount = bids[i].amount
          /\ (c.pc = "refundSave" /\ settleCall'[s].pc \in {"refundBid", "completeAuction"})
             => \A u \in Users :
                  /\ users'[u].balance = users[u].balance
                  /\ users'[u].frozenFunds =
                       IF u = Loser(s).oderId
                         THEN users[u].frozenFunds - Loser(s).amount
                         ELSE users[u].frozenFunds
          /\ (/\ c.pc = "completeRound"
              /\ settleCall'[s].pc = "done"
              /\ settleCall'[s].result = "ok"
              /\ IsLastRound(c))
             => /\ auctions'[c.auctionId].status = "completed"
                /\ \A i \in DOMAIN bids' :
                     (bids'[i].exists /\ bids'[i].auctionId = c.auctionId)
                     => /\ bids'[i].status \in {"won", "refunded"}
                        /\ bids'[i].status = "refunded"
                           => \A k \in ItemKeys : items'[k].bidId # i]_vars

\* C13: in a placeBid that succeeds, the escrow step raises the user's
\* frozenFunds by exactly the amount asked and leaves the balance alone; the
\* bid step creates an Active bid of that amount in the round read, with
\* originalRound the same, when the user holds no Active or CarriedOver bid
\* in the auction, and otherwise adds the amount to the bid the user holds;
\* the amount returned is the bid's total in the Bid Book.
BidEscrowsAmount ==
  [][\A c \in BidCalls :
       LET b == bidCall[c]
           u == b.userId
           held == LiveBids(bids, u, b.auctionId)
       IN /\ (b.pc = "lockSave" /\ bidCall'[c].pc = "bidSave")
             => /\ users'[u].frozenFunds = users[u].frozenFunds + b.amount
                /\ users'[u].balance = users[u].balance
          /\ (b.pc = "bidSave" /\ bidCall'[c].pc \in {"extend", "zadd"})
             => IF held = {}
                  THEN bids' = Append(bids, NewBid(u, b.auctionId, b.amount,
                                                   b.roundNumber))
                  ELSE \E i \in held :
                         bids' = [bids EXCEPT ![i].amount = bids[i].amount + b.amount]
          /\ (b.pc = "zadd" /\ bidCall'[c].pc = "done" /\ bidCall'[c].result = "ok")
             => b.bidAmount = bids[b.bidId].amount]_vars

\* C14: a placeBid that finds the amount above the user's available balance
\* (balance - frozenFunds) ends there with InsufficientFunds, and no step of
\* the call up to and including that one changes a user, a bid, an item, an
\* auction (endTime and extendedCount of its rounds included) or the rank
\* store.
BidAboveAvailableIsRejected ==
  [][\A c \in BidCalls :
       LET b == bidCall[c]
       IN /\ (/\ b.pc = "lockRead"
              /\ bidCall'[c] # b
              /\ users[b.userId].balance - users[b.userId].frozenFunds < b.amount)
             => /\ bidCall'[c].pc = "done"
                /\ bidCall'[c].result = "InsufficientFunds"
          /\ (b.pc \in {"idle", "findAuction", "findBid", "lockRead"} /\ bidCall'[c] # b)
             => UNCHANGED <<users, bids, items, auctions, redis>>]_vars

\* C14 happens: a placeBid has failed with InsufficientFunds while the user
\* holds escrow for an earlier bid
BidWasRejected ==
  \E c \in BidCalls :
    /\ bidCall[c].pc = "done"
    /\ bidCall[c].result = "InsufficientFunds"
    /\ users[bidCall[c].userId].frozenFunds > 0
    /\ LiveBidsOf(bids, bidCall[c].userId) # {}

\* the round a placeBid call bids in, as the store holds it
RoundOf(c) ==
  LET a == auctions[bidCall[c].auctionId]
  IN a.rounds[RoundIndex(a, bidCall[c].roundNumber)]

\* C15: a placeBid that has saved its bid extends the round exactly when the
\* round's remaining time, endTime - now, is above 0 and at most the
\* anti-snipe window; the extension adds exactly the anti-snipe extension to
\* the round's endTime and 1 to its extendedCount; a call that extended
\* returns the round's new endTime, and a call that did not extend changes
\* neither endTime nor extendedCount.
AntiSnipeExtendsOnce ==
  [][\A c \in BidCalls :
       LET b == bidCall[c]
           remaining == RoundOf(c).endTime - now
       IN /\ (b.pc = "bidSave" /\ bidCall'[c].pc \in {"extend", "zadd"})
             => (bidCall'[c].pc = "extend"
                 <=> (remaining > 0 /\ remaining <= AntiSnipeWindow))
          /\ (b.pc = "extend" /\ bidCall'[c].pc = "zadd")
             => LET after == auctions'[b.auctionId].rounds[RoundIndex(auctions[b.auctionId],
                                                                      b.roundNumber)]
                IN /\ after.endTime = RoundOf(c).endTime + AntiSnipeExtension
                   /\ after.extendedCount = RoundOf(c).extendedCount + 1
                   /\ bidCall'[c].roundExtended
          /\ (b.pc = "zadd" /\ bidCall'[c].pc = "done" /\ bidCall'[c].result = "ok")
             => /\ UNCHANGED auctions
                /\ b.roundExtended => b.newEndTime = RoundOf(c).endTime]_vars

\* C16: a placeBid that reads an Active auction none of whose Active rounds
\* has startTime <= now < endTime ends there with RoundNotActive, and a
\* placeBid that goes on bids in a round that is Active with
\* startTime <= now < endTime; up to that point the call has changed
\* nothing.
BidOnlyInsideWindow ==
  [][\A c \in BidCalls :
       LET b == bidCall[c]
           a == auctions[b.auctionId]
           open == {i \in DOMAIN a.rounds :
                      /\ a.rounds[i].status = "active"
                      /\ a.rounds[i].startTime <= now
                      /\ now < a.rounds[i].endTime}
       IN (b.pc = "findAuction" /\ bidCall'[c] # b /\ a.exists /\ a.status = "active")
          => /\ UNCHANGED <<users, bids, items, auctions, redis>>
             /\ IF open = {}
                  THEN /\ bidCall'[c].pc = "done"
                       /\ bidCall'[c].result = "RoundNotActive"
                  ELSE /\ bidCall'[c].pc = "findBid"
                       /\ \E i \in open :
                            bidCall'[c].roundNumber = a.rounds[i].roundNumber]_vars

\* C16 happens: a placeBid has failed with RoundNotActive and the auction
\* still has an Active round whose endTime has passed, settlement not having
\* run yet
BidAfterDeadlineRejected ==
  \E c \in BidCalls :
    /\ bidCall[c].pc = "done"
    /\ bidCall[c].result = "RoundNotActive"
    /\ \E i \in DOMAIN auctions[bidCall[c].auctionId].rounds :
         /\ auctions[bidCall[c].auctionId].rounds[i].status = "active"
         /\ auctions[bidCall[c].auctionId].rounds[i].endTime <= now
    /\ \A s \in SettleCalls : settleCall[s].pc = "idle"

\* C17: in every step, every round keeps its status or moves one place
\* along Pending -> Active -> Finalizing -> Completed.
RoundStatusMovesForward ==
  [][\A a \in AuctionIds :
       \A i \in DOMAIN auctions[a].rounds :
         \/ auctions'[a].rounds[i].status = auctions[a].rounds[i].status
         \/ <<auctions[a].rounds[i].status, auctions'[a].rounds[i].status>>
              \in {<<"pending", "active">>, <<"active", "finalizing">>,
                   <<"finalizing", "completed">>}]_vars

\* BidStatus.WON, LOST, CANCELLED and REFUNDED
Terminal == {"won", "lost", "cancelled", "refunded"}

\* C18: in every step, a bid whose status is Won, Lost, Cancelled or
\* Refunded keeps its status and its amount, and a placeBid that is
\* incrementing such a bid escrows no funds for it.
TerminalBidsAreFrozen ==
  [][/\ \A i \in DOMAIN bids :
          bids[i].status \in Terminal
          => /\ bids'[i].status = bids[i].status
             /\ bids'[i].amount = bids[i].amount
     /\ \A c \in BidCalls :
          (/\ bidCall[c].pc = "lockSave"
           /\ bidCall'[c].pc = "bidSave"
           /\ bidCall[c].existingBid # 0
           /\ bids[bidCall[c].existingBid].status \in Terminal)
          => UNCHANGED users]_vars

\* C19: in every step, an item that has an owner keeps its ownerId, roundWon
\* and bidId; and the item-assignment step of a settlement of round r, for
\* the winner of rank k, changes only the item with serialNumber
\* (r - 1) * itemsInRound + k, giving it to that winner.
ItemsAssignedOnce ==
  [][/\ \A k \in ItemKeys : items[k].ownerId # 0 => items'[k] = items[k]
     /\ \A s \in SettleCalls :
          LET c == settleCall[s]
              slot == <<c.auctionId,
                        (c.roundNumber - 1) * c.itemsInRound + (c.rankIdx + 1)>>
          IN (c.pc = "assignItem" /\ settleCall'[s].pc \in {"winBid", "saveWinners"})
             => /\ \A k \in ItemKeys : k # slot => items'[k] = items[k]
                /\ items'[slot].ownerId = Winner(s).oderId
                /\ items'[slot].roundWon = c.roundNumber
                /\ items'[slot].bidId = c.bidId]_vars

\* C20: whenever no call is mid-execution and processRoundEnd has returned
\* from settling round r of an auction, no bid of that auction with
\* roundNumber r is still Active or CarriedOver: each has become Won or
\* Refunded, or was carried over to round r + 1.
CommittedBidsAreSettled ==
  Quiescent =>
    \A s \in SettleCalls :
      (settleCall[s].pc = "done" /\ settleCall[s].result = "ok")
      => \A i \in DOMAIN bids :
           (/\ bids[i].exists
            /\ bids[i].auctionId = settleCall[s].auctionId
            /\ bids[i].roundNumber = settleCall[s].roundNumber)
           => bids[i].status \notin Live

\* the processRoundEnd invocations a scheduler tick started that are running
TickSettlements ==
  {s \in SettleCalls : settleCall[s].caller = "sched"
                       /\ settleCall[s].pc \notin {"idle", "done"}}

\* C21: a tick enters its body only while no tick is running; at most one
\* processRoundEnd started by the scheduler is running at any time; and a
\* tick that fires while another is running returns at once: it starts no
\* query and no settlement and changes nothing in the stores.
SchedulerIsSingleFlight ==
  [][/\ (sched'.pc = "find" /\ sched.pc # "find") => ~sched.isProcessing
     /\ sched.isProcessing =>
          (sched'.isProcessing => sched'.tickTime = sched.tickTime)
     /\ Cardinality(TickSettlements') <= 1
     /\ sched'.skipped # sched.skipped
        => /\ sched.isProcessing
           /\ sched' = [sched EXCEPT !.skipped = sched'.skipped]
           /\ UNCHANGED <<users, auctions, bids, items, redis, settleCall>>]_vars

\* C21 happens: the timer fired while a tick's settlement was running, and
\* that tick returned at once
TickSkippedDuringSettlement ==
  /\ sched.skipped > 0
  /\ sched.isProcessing
  /\ TickSettlements # {}

\* C22: when createAuction returns, the auction it built is the only Active
\* auction; its currentRound is 1, round 1 is Active and the later rounds
\* are Pending, every round has no winners and extendedCount 0; and its
\* items are exactly those with the serial numbers 1..itemsPerRound *
\* totalRounds, none of them owned.
CreatedAuctionIsTheOnlyActive ==
  [][\A k \in CreateCalls :
       (/\ createCall[k].pc = "insertItems"
        /\ createCall'[k].pc = "done"
        /\ createCall'[k].result = "ok")
       => LET id == createCall[k].auctionId
              a == auctions'[id]
              n == createCall[k].itemsPerRound * createCall[k].totalRounds
          IN /\ a.exists /\ a.status = "active"
             /\ \A other \in AuctionIds :
                  (auctions'[other].exists /\ auctions'[other].status = "active")
                  => other = id
             /\ a.currentRound = 1
             /\ a.totalRounds = createCall[k].totalRounds
             /\ Len(a.rounds) = a.totalRounds
             /\ \A i \in DOMAIN a.rounds :
                  /\ a.rounds[i].roundNumber = i
                  /\ a.rounds[i].status = IF i = 1 THEN "active" ELSE "pending"
                  /\ a.rounds[i].winners = <<>>
                  /\ a.rounds[i].extendedCount = 0
             /\ \A key \in ItemKeys :
                  key[1] = id =>
                    /\ items'[key].exists <=> key[2] \in 1..n
                    /\ items'[key].ownerId = 0]_vars

\* C23: in every state, for a round r that is not the last: round r + 1 is
\* not Active while round r is Finalizing, round r is not Completed while
\* round r + 1 is Pending, and currentRound is r + 1 as soon as round r + 1
\* is Active with round r settled.
RoundTransitionIsAtomic ==
  \A a \in AuctionIds :
    \A i \in DOMAIN auctions[a].rounds :
      i < Len(auctions[a].rounds) =>
        LET this == auctions[a].rounds[i]
            next == auctions[a].rounds[i + 1]
        IN /\ ~(next.status = "active" /\ this.status = "finalizing")
           /\ ~(this.status = "completed" /\ next.status = "pending")
           /\ (this.status = "completed" /\ next.status = "active")
              => auctions[a].currentRound = next.roundNumber

\* the round a processRoundEnd invocation settles, as the store holds it
SettledRound(s) ==
  LET a == auctions[settleCall[s].auctionId]
  IN a.rounds[RoundIndex(a, settleCall[s].roundNumber)]

\* C24: a settlement the scheduler started for a round it found expired
\* marks the round Finalizing, and reads its winners, only while the round's
\* endTime in the store is not later than now.
SettlementRespectsExtension ==
  [][\A s \in SettleCalls :
       (/\ settleCall[s].caller = "sched"
        /\ settleCall[s].pc \in {"markFinalizing", "readWinners"}
        /\ settleCall'[s].pc \in {"readWinners", "winBid", "saveWinners"}
        /\ settleCall'[s].pc # settleCall[s].pc)
       => SettledRound(s).endTime <= now]_vars

\* a processRoundEnd invocation that threw after it had found its round Active
Aborted(s) ==
  /\ settleCall[s].pc = "done"
  /\ settleCall[s].result \in {"StoreError", "InsufficientFunds"}

\* C25: when the only settlement of an auction has failed partway, none of
\* its results is in the stores: no bid is Won, Refunded or CarriedOver, no
\* balance was debited, no item has an owner, the round has no winners and
\* is not Completed, the next round is not Active, currentRound is 1 and the
\* auction is not Completed.
AbortedSettlementLeavesNothing ==
  \A s \in SettleCalls :
    (/\ Aborted(s)
     /\ \A t \in SettleCalls \ {s} : settleCall[t].pc = "idle")
    => LET a == auctions[settleCall[s].auctionId]
       IN /\ \A i \in DOMAIN bids : bids[i].status = "active"
          /\ \A u \in Users : users[u].balance = InitialBalance
          /\ \A k \in ItemKeys : items[k].ownerId = 0
          /\ a.status = "active"
          /\ a.currentRound = 1
          /\ \A i \in DOMAIN a.rounds :
               /\ a.rounds[i].winners = <<>>
               /\ a.rounds[i].status \in
                    (IF i = 1 THEN {"active", "finalizing"} ELSE {"pending"})

\* a settlement failed between marking a bid Won and debiting its owner
WonButNotDebited ==
  \E s \in SettleCalls :
    /\ Aborted(s)
    /\ \E i \in DOMAIN bids :
         /\ bids[i].status = "won"
         /\ users[bids[i].userId].balance = InitialBalance
         /\ users[bids[i].userId].frozenFunds = bids[i].amount
    /\ \A c \in BidCalls : bidCall[c].pc \in {"idle", "done"}

\* round r of auction a was left Finalizing by a settlement that threw, and
\* no settlement of it is running
StuckFinalizing(a, r) ==
  /\ auctions[a].exists
  /\ RoundIndex(auctions[a], r) # 0
  /\ auctions[a].rounds[RoundIndex(auctions[a], r)].status = "finalizing"
  /\ \E s \in SettleCalls :
       Aborted(s) /\ settleCall[s].auctionId = a /\ settleCall[s].roundNumber = r
  /\ \A s \in SettleCalls :
       (settleCall[s].auctionId = a /\ settleCall[s].roundNumber = r)
       => settleCall[s].pc = "done"

\* C26: with only the scheduler settling, a round left Finalizing by an
\* aborted settlement stays so in every later step: no tick starts a
\* settlement of it and it does not become Completed; and a placeBid that
\* reads its auction from then on is turned away.
StuckRoundIsNeverRetried ==
  [][\A a \in AuctionIds, r \in RoundNumbers :
       StuckFinalizing(a, r)
       => /\ StuckFinalizing(a, r)'
          /\ \A c \in BidCalls :
               (/\ bidCall[c].pc = "findAuction"
                /\ bidCall[c].auctionId = a
                /\ bidCall'[c] # bidCall[c])
               => /\ bidCall'[c].pc = "done"
                  /\ bidCall'[c].result \in {"RoundNotActive", "AuctionNotActive"}]_vars

\* C27: the tick's query returns every Active auction that has an Active
\* round with endTime <= now; and when a processRoundEnd the tick started
\* ends, whether it returned or threw, the tick starts processRoundEnd for
\* the next auction its query returned, or, that one having been the last,
\* clears isProcessing.
TickSurvivesFailure ==
  [][/\ (sched.pc = "find" /\ sched'.pc # "find")
        => \A a \in AuctionIds :
             (/\ auctions[a].exists
              /\ auctions[a].status = "active"
              /\ \E i \in DOMAIN auctions[a].rounds :
                   /\ auctions[a].rounds[i].status = "active"
                   /\ auctions[a].rounds[i].endTime <= sched.tickTime)
             => \E n \in DOMAIN sched'.queue : sched'.queue[n][1] = a
     /\ \A s \in SettleCalls :
          (/\ settleCall[s].caller = "sched"
           /\ settleCall[s].pc \notin {"idle", "done"}
           /\ settleCall'[s].pc = "done")
          => IF Len(sched.queue) > 1
               THEN /\ sched'.isProcessing
                    /\ \E t \in SettleCalls \ {s} :
                         /\ settleCall[t].pc = "idle"
                         /\ settleCall'[t].pc = "findAuction"
                         /\ settleCall'[t].caller = "sched"
                         /\ <<settleCall'[t].auctionId, settleCall'[t].roundNumber>>
                              = sched.queue[2]
               ELSE ~sched'.isProcessing]_vars

\* C27 happens: a tick found two auctions with an expired round, its
\* processRoundEnd for the first threw, and it is settling the second
TickWentOnAfterFailure ==
  /\ sched.isProcessing
  /\ sched.found = 2
  /\ Len(sched.queue) = 1
  /\ \E s \in SettleCalls :
       /\ Aborted(s)
       /\ settleCall[s].caller = "sched"
       /\ settleCall[s].auctionId # sched.queue[1][1]
       /\ settleCall[sched.running].pc \notin {"idle", "done"}
       /\ settleCall[sched.running].auctionId = sched.queue[1][1]
       /\ \A t \in SettleCalls \ {s, sched.running} : settleCall[t].pc = "idle"

\* C28: in every step, a bid that is Active or CarriedOver does not lose
\* amount, and the step of a placeBid that saves an increment of a bid
\* leaves that bid's amount at what it was plus the amount asked.
BidAmountOnlyGrows ==
  [][/\ \A i \in DOMAIN bids :
          (bids[i].exists /\ bids[i].status \in Live)
          => bids'[i].amount >= bids[i].amount
     /\ \A c \in BidCalls :
          (/\ bidCall[c].pc = "bidSave"
           /\ bidCall'[c].pc \in {"extend", "zadd"}
           /\ bidCall[c].existingBid # 0)
          => bids'[bidCall[c].existingBid].amount
               = bids[bidCall[c].existingBid].amount + bidCall[c].amount]_vars

\* C29: in every step no auction's currentRound decreases, and in every
\* state an auction that has an Active round has currentRound equal to
\* that round's roundNumber.
CurrentRoundFollowsActiveRound ==
  [][\A a \in AuctionIds :
       auctions[a].exists /\ auctions'[a].exists
       => /\ auctions'[a].currentRound >= auctions[a].currentRound
          /\ \A i \in DOMAIN auctions'[a].rounds :
               auctions'[a].rounds[i].status = "active"
               => auctions'[a].currentRound = auctions'[a].rounds[i].roundNumber]_vars

\* the live bids of user u that compete in round r of auction a
BidsInRound(bs, u, a, r) == {i \in LiveBids(bs, u, a) : bs[i].roundNumber = r}

\* C30: whenever no call is mid-execution and no store operation has been
\* rejected, every leaderboard holds exactly the users that have an Active
\* or CarriedOver bid with its auction and round number, each with that
\* bid's amount as score.
RankStoreMatchesBidBook ==
  (Quiescent /\ failures = 0) =>
    \A key \in RedisKeys, u \in Users :
      LET held == BidsInRound(bids, u, key[1], key[2])
      IN IF held = {} THEN redis[key][u] = 0
         ELSE \E i \in held : redis[key][u] = bids[i].amount


\* C31: the step in which the redis.zadd of a placeBid is rejected ends the
\* call with success and changes neither the users, the bids, the auctions
\* nor the leaderboards: the escrow, the bid and the extension stay.
ZaddFailureKeepsBid ==
  [][\A c \in BidCalls :
       (/\ bidCall[c].pc = "zadd"
        /\ bidCall'[c].pc = "done"
        /\ failures' # failures)
       => /\ bidCall'[c].result = "ok"
          /\ UNCHANGED <<users, bids, auctions, redis>>]_vars

\* C31 happens: the only placeBid so far extended round 1 and returned
\* success although its zadd was rejected; its bid and escrow are in place
\* and the leaderboard does not hold the bidder
ZaddFailedBidStands ==
  \E c \in BidCalls :
    LET u == bidCall[c].userId
        a == bidCall[c].auctionId
    IN /\ bidCall[c].pc = "done"
       /\ bidCall[c].result = "ok"
       /\ failures = 1
       /\ \A d \in BidCalls \ {c} : bidCall[d].pc = "idle"
       /\ \A s \in SettleCalls : settleCall[s].pc = "idle"
       /\ redis[<<a, 1>>][u] = 0
       /\ users[u].frozenFunds = bidCall[c].amount
       /\ \E i \in LiveBids(bids, u, a) : bids[i].amount = bidCall[c].amount
       /\ auctions[a].rounds[1].extendedCount = 1
       /\ auctions[a].rounds[1].endTime = RoundDuration + AntiSnipeExtension


Orderings(z) ==
  {w \in [1..Cardinality(Members(z)) -> Members(z)] :
     \A i, j \in DOMAIN w : i < j => (w[i] # w[j] /\ Precedes(z, w[i], w[j]))}

\* the first k entries of the listing w of z, as zrevrange returns them
Listed(z, w, k) ==
  [i \in 1..Min(k, Cardinality(Members(z))) |-> [oderId |-> w[i], amount |-> z[w[i]]]]

WonInRound(a, r) ==
  {i \in DOMAIN bids : /\ bids[i].exists
                       /\ bids[i].auctionId = a
                       /\ bids[i].status = "won"
                       /\ bids[i].roundNumber = r}

\* the items of auction a assigned in round r
ItemsWonInRound(a, r) == {k \in ItemKeys : k[1] = a /\ items[k].roundWon = r}

\* C34: in every state, for every round of every auction, the bids Won in
\* the round, the winners recorded in the round and the items with roundWon
\* equal to the round are each at most itemsInRound in number.
WinnersWithinItemsInRound ==
  \A a \in AuctionIds :
    \A i \in DOMAIN auctions[a].rounds :
      LET round == auctions[a].rounds[i]
      IN /\ Cardinality(WonInRound(a, round.roundNumber)) <= round.itemsInRound
         /\ Len(round.winners) <= round.itemsInRound
         /\ Cardinality(ItemsWonInRound(a, round.roundNumber)) <= round.itemsInRound


\* C35: whenever no call is in progress, an auction whose status is
\* Completed has no bid that is Active or CarriedOver.
CompletedAuctionHasNoLiveBids ==
  Quiescent =>
    \A a \in AuctionIds :
      (auctions[a].exists /\ auctions[a].status = "completed")
      => \A u \in Users : LiveBids(bids, u, a) = {}


\* C36: after every step, every round's endTime is the endTime it was
\* created with (startTime plus the round duration) plus extendedCount times
\* the anti-snipe extension, and no step lowers a round's endTime.
EndTimeCountsExtensions ==
  [][\A a \in AuctionIds :
       \A i \in DOMAIN auctions'[a].rounds :
         LET round == auctions'[a].rounds[i]
         IN /\ round.endTime = round.startTime + RoundDuration
                                 + round.extendedCount * AntiSnipeExtension
            /\ i \in DOMAIN auctions[a].rounds
               => round.endTime >= auctions[a].rounds[i].endTime]_vars


\* the user's bids with status Won
WonBidsOf(bs, u) ==
  {i \in DOMAIN bs : bs[i].exists /\ bs[i].userId = u /\ bs[i].status = "won"}

\* C37: whenever no call is mid-execution and no store operation has been
\* rejected, every user's balance is the initial balance less the sum of the
\* amounts of the user's Won bids; and a step changes a user's balance only
\* when it is the write of a deductFunds of a settlement.
BalanceChangesOnlyByWinning ==
  [][/\ (Quiescent' /\ failures' = 0)
        => \A u \in Users :
             InitialBalance - users'[u].balance = SumAmounts(bids', WonBidsOf(bids', u))
     /\ \A u \in Users :
          users'[u].balance # users[u].balance
          => \E s \in SettleCalls :
               /\ settleCall[s].pc = "deductSave"
               /\ settleCall'[s].pc = "assignItem"
               /\ Winner(s).oderId = u]_vars


\* C38: whenever a createAuction has returned and no call is in progress,
\* no user's frozenFunds exceeds the sum of the amounts of the Active and
\* CarriedOver bids the user still has.
CreateAuctionReleasesEscrow ==
  (/\ Quiescent
   /\ \A k \in CreateCalls : createCall[k].pc \in {"idle", "done"}
   /\ \E k \in CreateCalls : createCall[k].pc = "done")
  => \A u \in Users : users[u].frozenFunds <= SumAmounts(bids, LiveBidsOf(bids, u))


\* C39: the step of a settlement the scheduler started that sets the next
\* round Active does so while that round's window is open: startTime <= now
\* and now < endTime.
ActivatedRoundIsOpen ==
  [][\A s \in SettleCalls :
       (/\ settleCall[s].caller = "sched"
        /\ settleCall[s].pc = "activateNext"
        /\ settleCall'[s].pc = "setCurrentRound")
       => LET a == auctions'[settleCall[s].auctionId]
              i == RoundIndex(a, settleCall[s].roundNumber + 1)
          IN (a.exists /\ i # 0)
             => /\ a.rounds[i].status = "active"
                /\ a.rounds[i].startTime <= now
                /\ now < a.rounds[i].endTime]_vars


\* C40: with no bids placed, at most MaxFailures rejected operations and
\* fair scheduler ticks, every Active auction eventually is Completed with
\* all its rounds Completed, and every Active round whose endTime has passed
\* eventually is Completed.
ActiveAuctionsEventuallyComplete ==
  \A a \in AuctionIds :
    /\ (auctions[a].exists /\ auctions[a].status = "active")
         ~> (/\ auctions[a].status = "completed"
             /\ \A i \in DOMAIN auctions[a].rounds :
                  auctions[a].rounds[i].status = "completed")
    /\ \A i \in 1..MaxRounds :
         (/\ i \in DOMAIN auctions[a].rounds
          /\ auctions[a].rounds[i].status = "active"
          /\ auctions[a].rounds[i].endTime <= now)
           ~> (/\ i \in DOMAIN auctions[a].rounds
               /\ auctions[a].rounds[i].status = "completed")

=============================================================================
